---- MODULE Spec2Model ----
(***************************************************************************)
(* Cycle-level model of the SDRAM controller of                            *)
(* "Tang Nano 20k/sdram_controller.py" (SimpleSDRAMController and its four *)
(* SimpleBankController sub-modules).                                      *)
(*                                                                         *)
(* One step of the model is one rising edge of clkSDRAM.  Every register   *)
(* (m.d.clkSDRAM) is a variable; every combinational signal (m.d.comb) is  *)
(* an operator over the current state.  Within one tick all right-hand     *)
(* sides read the values of the current state, and of several assignments  *)
(* to the same register the last one in program order wins: a handler is   *)
(* therefore written as a chain  later @@ earlier  of partial updates.     *)
(*                                                                         *)
(* The control path is modelled in full; the data path (ctrlWrDataIn,      *)
(* sdramDqIn, sdramDqOut, ctrlRdDataOut) carries no control and is left    *)
(* out.  Three specifications are given: Spec runs the controller from     *)
(* reset under arbitrary request strobes, SpecCfg runs power-up and        *)
(* configuration for a range of intervals, and SpecError runs it with the  *)
(* error flag raised.                                                      *)
(***************************************************************************)
EXTENDS Integers, Sequences, FiniteSets, TLC

(* ----------------------------------------------------------------------- *)
(* Configuration                                                           *)
(* ----------------------------------------------------------------------- *)

\* Timing constants in clock cycles at the default 120 MHz system clock.
RCcycles == 7
RCDcycles == 6
RPcycles == 2
RRDcycles == 2
RAScycles == 5
WRcycles == 2
MRDcycles == 4

sdramBanks == 4
sdramDataWidth == 32

\* The model's scaled-down geometry and intervals.
sdramColumnAddressWidth == 2
ModelREFIcycles == 26
ModelPowerUPcycles == 3
MaxCfgREFIcycles == 12
MaxCfgPowerUPcycles == 5

RECURSIVE Pow2(_)
Pow2(n) == IF n = 0 THEN 1 ELSE 2 * Pow2(n - 1)

\* Number of bits of Signal(range(n)): bits needed for n - 1.
RECURSIVE BitsFor(_)
BitsFor(n) == IF n <= 1 THEN 0 ELSE 1 + BitsFor((n + 1) \div 2)

pageWords == Pow2(sdramColumnAddressWidth)

Banks == 0 .. (sdramBanks - 1)
Columns == 0 .. (pageWords - 1)
\* Row and bank addresses the stimulus uses (the row bits never steer the
\* sequencer, and the banks differ only in which one is targeted).
Rows == {1}
StimulusBanks == {0, 1}

DataByteWidths == {1, 2, 3, 4}

roundedDataByteWidth(w) == IF w = 3 THEN 4 ELSE w

nrOfReadWriteSuspendCycles(w) == ((sdramDataWidth \div 8) \div roundedDataByteWidth(w)) - 1

suspendCyclesShiftBits(w) ==
    IF nrOfReadWriteSuspendCycles(w) > 0
    THEN BitsFor(nrOfReadWriteSuspendCycles(w) + 1) - 1
    ELSE 0

\* Flat controller-side addresses: column bits, then bank bits, then row bits
\* (maskBitOffset is 0 for the data widths that elaborate).
MakeAddress(row, bank, col) == col + pageWords * (bank + sdramBanks * row)

Addresses == { MakeAddress(r, b, c) : r \in Rows, b \in StimulusBanks, c \in Columns }

\* Mode register word packed by setModeConfig(FullPage, Sequential, CAS 3, Normal, BurstReadBurstWrite).
ModeWord == 7 + (0 * 8) + (3 * 16) + (0 * 128) + (0 * 512)

(* ----------------------------------------------------------------------- *)
(* State                                                                   *)
(* ----------------------------------------------------------------------- *)
VARIABLES
    phase,                  \* "Constructed", "Running" or "ElaborateError"
    dataByteWidth,          \* constructor argument
    REFIcycles,             \* refresh interval in cycles
    PowerUPcycles,          \* power-up hold in cycles
    clientDrive,            \* when the client may raise its strobes: "InIdle" or "Always"
    \* controller-side request strobes, as sampled by the coming tick
    ctrlRd, ctrlWr,
    \* sequencer registers
    currentControllerState, previousControllerState, errorState,
    cmdIndex, refreshCmdIndex, refreshRequired, powerUpCounter, delayCounter,
    burstWritesMode, pageColumnIndex, ctrlAddress, ctrlReady, repeatRefresh,
    ctrlRdInProgress, ctrlWrInProgress, ctrlRdIncAddress, ctrlWrIncAddress,
    targetBankCanActivate, targetBankCanPreCharge, targetBankRefreshCounter,
    \* SDRAM bus registers
    sdramClkEn, sdramCSn, sdramRASn, sdramCASn, sdramWEn,
    sdramDataMasks, sdramBank, sdramAddress, sdramDqWRn,
    \* bank controllers (functions over Banks)
    bankState, bankREFIcyclesCounter, bankRAScyclesCounter,
    bankActivatedCounter, otherBankActivatedCounter,
    bankShouldRefresh, bankCanPreCharge,
    \* observation: the commands completed before ctrlReady is first asserted
    cfgTrace,
    \* the command applied last, and the combinational cmdCompleted of that tick
    currentCommand, cmdCompleted,
    \* the ticks of the burst so far in which ctrlRdIncAddress was high
    rdIncTicks,
    \* the ticks elapsed since the pending PreChargeAll or ModeRegisterSet first
    \* drove its lines; -1 when none is pending
    holdAge,
    \* the banks whose bankActivated and otherBankActivated strobes were high in
    \* the tick just taken
    activatedStrobe, otherActivatedStrobe,
    \* the ticks taken in InitOp since the initial DeviceDeSelect completed
    powerUpTicks,
    \* the ticks since a BankActivate last completed on each bank, and since each
    \* of the commands in AgedCommands last completed; each stops counting at its bound
    activateAge, cmdAge,
    \* the ticks elapsed since the data bus last carried an unmasked input word
    dataAge

cfgVars == <<phase, dataByteWidth, REFIcycles, PowerUPcycles, clientDrive>>

seqVars == <<currentControllerState, previousControllerState, errorState,
             cmdIndex, refreshCmdIndex, refreshRequired, powerUpCounter, delayCounter,
             burstWritesMode, pageColumnIndex, ctrlAddress, ctrlReady, repeatRefresh,
             ctrlRdInProgress, ctrlWrInProgress, ctrlRdIncAddress, ctrlWrIncAddress,
             targetBankCanActivate, targetBankCanPreCharge, targetBankRefreshCounter>>

busVars == <<sdramClkEn, sdramCSn, sdramRASn, sdramCASn, sdramWEn,
             sdramDataMasks, sdramBank, sdramAddress, sdramDqWRn>>

bankVars == <<bankState, bankREFIcyclesCounter, bankRAScyclesCounter,
              bankActivatedCounter, otherBankActivatedCounter,
              bankShouldRefresh, bankCanPreCharge>>

vars == <<cfgVars, ctrlRd, ctrlWr, seqVars, busVars, bankVars, cfgTrace,
          currentCommand, cmdCompleted, rdIncTicks, holdAge,
          activatedStrobe, otherActivatedStrobe, powerUpTicks, activateAge, cmdAge,
          dataAge>>

(* ----------------------------------------------------------------------- *)
(* Combinational signals                                                   *)
(* ----------------------------------------------------------------------- *)
\* The column taken from one address bit too few.
targetColumnShort == ctrlAddress % Pow2(sdramColumnAddressWidth - 1)

targetColumnAddress == ctrlAddress % pageWords

targetBankAddress == (ctrlAddress \div pageWords) % sdramBanks

targetRowAddress == ctrlAddress \div (pageWords * sdramBanks)

targetBankState == bankState[targetBankAddress]

allBanksIdle == \A b \in Banks : bankState[b] = "Idle"

banksShouldRefresh == \E b \in Banks : bankShouldRefresh[b]

bankCanActivate(b) == (bankActivatedCounter[b] = 0) /\ (otherBankActivatedCounter[b] = 0)

\* The mask values of the two cases exchanged.
targetMaskSwapped == IF dataByteWidth = 3 THEN 0 ELSE 8

targetMask == IF dataByteWidth = 3 THEN 8 ELSE 0

\* Partial updates: a function from signal names to the value assigned.
NoUpdate == [n \in {} |-> 0]

Upd(u, n, d) == IF n \in DOMAIN u THEN u[n] ELSE d

\* sdramAddress with bit 10 forced to v.
SetA10(a, v) == (a - (((a \div 1024) % 2) * 1024)) + (v * 1024)

(* ----------------------------------------------------------------------- *)
(* Command encoder: applySDRAMCommand                                      *)
(* The result is the partial update the call contributes to the tick; the  *)
(* combinational outputs cmdCompleted, cmdRemainingCyclesCounter and       *)
(* bankActivated (the bank whose activated strobe is raised) are fields.   *)
(* ----------------------------------------------------------------------- *)
\* The clock-enable phase that already reports the command complete.
EnableClockAndComplete ==
    [sdramClkEn |-> 1, cmdRemainingCyclesCounter |-> 1, cmdCompleted |-> TRUE]

EnableClock == [sdramClkEn |-> 1, cmdRemainingCyclesCounter |-> 1]

\* BankActivate that opens the next bank along with the addressed one.
ApplyBankActivatePair ==
    IF (targetBankState # "Idle") \/ ~targetBankCanActivate
    THEN [errorState |-> TRUE]
    ELSE IF sdramClkEn = 0
    THEN EnableClock
    ELSE [cmdCompleted |-> TRUE,
          bankActivated |-> targetBankAddress,
          bankState |-> [b \in Banks |->
                            IF b \in {targetBankAddress, (targetBankAddress + 1) % sdramBanks}
                            THEN (IF burstWritesMode THEN "ActiveBurst" ELSE "Active")
                            ELSE bankState[b]],
          sdramBank |-> targetBankAddress,
          sdramAddress |-> targetRowAddress,
          sdramCSn |-> 0, sdramRASn |-> 0, sdramCASn |-> 1, sdramWEn |-> 1]

\* BankActivate that marks every bank open.
ApplyBankActivateAll ==
    IF (targetBankState # "Idle") \/ ~targetBankCanActivate
    THEN [errorState |-> TRUE]
    ELSE IF sdramClkEn = 0
    THEN EnableClock
    ELSE [cmdCompleted |-> TRUE,
          bankActivated |-> targetBankAddress,
          bankState |-> [b \in Banks |->
                            IF burstWritesMode THEN "ActiveBurst" ELSE "Active"],
          sdramBank |-> targetBankAddress,
          sdramAddress |-> targetRowAddress,
          sdramCSn |-> 0, sdramRASn |-> 0, sdramCASn |-> 1, sdramWEn |-> 1]

ApplyBankActivate ==
    IF (targetBankState # "Idle") \/ ~targetBankCanActivate
    THEN [errorState |-> TRUE]
    ELSE IF sdramClkEn = 0
    THEN EnableClock
    ELSE [cmdCompleted |-> TRUE,
          bankActivated |-> targetBankAddress,
          bankState |-> [bankState EXCEPT ![targetBankAddress] =
                            IF burstWritesMode THEN "ActiveBurst" ELSE "Active"],
          sdramBank |-> targetBankAddress,
          sdramAddress |-> targetRowAddress,
          sdramCSn |-> 0, sdramRASn |-> 0, sdramCASn |-> 1, sdramWEn |-> 1]

\* BankPreCharge that leaves the bank's state as it was.
ApplyBankPreChargeKeepsOpen ==
    IF sdramClkEn = 0
    THEN EnableClock
    ELSE [cmdCompleted |-> TRUE,
          sdramAddress |-> SetA10(sdramAddress, 0),
          sdramCSn |-> 0, sdramRASn |-> 0, sdramCASn |-> 1, sdramWEn |-> 0]

\* BankPreCharge that marks the bank after the addressed one Idle.
ApplyBankPreChargeNext ==
    IF sdramClkEn = 0
    THEN EnableClock
    ELSE [cmdCompleted |-> TRUE,
          bankState |-> [bankState EXCEPT ![(targetBankAddress + 1) % sdramBanks] = "Idle"],
          sdramAddress |-> SetA10(sdramAddress, 0),
          sdramCSn |-> 0, sdramRASn |-> 0, sdramCASn |-> 1, sdramWEn |-> 0]

ApplyBankPreCharge ==
    IF sdramClkEn = 0
    THEN EnableClock
    ELSE [cmdCompleted |-> TRUE,
          bankState |-> [bankState EXCEPT ![targetBankAddress] = "Idle"],
          sdramAddress |-> SetA10(sdramAddress, 0),
          sdramCSn |-> 0, sdramRASn |-> 0, sdramCASn |-> 1, sdramWEn |-> 0]

\* The hold counter test follows the clock-enable test and overrides its reload.
\* A hold that reports completion one tick before the counter reaches zero.
HoldCounterShort ==
    IF delayCounter > 1 THEN [delayCounter |-> delayCounter - 1]
    ELSE IF delayCounter \in {0, 1} THEN [cmdCompleted |-> TRUE, delayCounter |-> -1]
    ELSE NoUpdate

HoldCounterStep ==
    IF delayCounter > 0 THEN [delayCounter |-> delayCounter - 1]
    ELSE IF delayCounter = 0 THEN [cmdCompleted |-> TRUE, delayCounter |-> -1]
    ELSE NoUpdate

ApplyPreChargeAll ==
    HoldCounterStep @@
    (IF sdramClkEn = 0
     THEN EnableClock
     ELSE [delayCounter |-> RPcycles - 1,
           sdramAddress |-> SetA10(sdramAddress, 1),
           sdramCSn |-> 0, sdramRASn |-> 0, sdramCASn |-> 1, sdramWEn |-> 0,
           bankState |-> [b \in Banks |-> "Idle"]])

ApplyWrite ==
    IF (targetBankState # "Active") /\ (targetBankState # "ActiveBurst")
    THEN [errorState |-> TRUE]
    ELSE IF sdramClkEn = 0
    THEN EnableClock
    ELSE [cmdCompleted |-> TRUE,
          sdramDataMasks |-> targetMask,
          sdramBank |-> targetBankAddress,
          sdramAddress |-> targetColumnAddress,
          sdramCSn |-> 0, sdramRASn |-> 1, sdramCASn |-> 0, sdramWEn |-> 0]

ApplyRead ==
    IF (targetBankState # "Active") /\ (targetBankState # "ActiveBurst")
    THEN [errorState |-> TRUE]
    ELSE IF sdramClkEn = 0
    THEN EnableClock
    ELSE [cmdCompleted |-> TRUE,
          sdramBank |-> targetBankAddress,
          sdramAddress |-> targetColumnAddress,
          sdramCSn |-> 0, sdramRASn |-> 1, sdramCASn |-> 0, sdramWEn |-> 1]

ApplyModeRegisterSet ==
    IF ~allBanksIdle
    THEN [errorState |-> TRUE]
    ELSE HoldCounterStep @@
         (IF sdramClkEn = 0
          THEN EnableClock
          ELSE [delayCounter |-> MRDcycles - 1,
                sdramCSn |-> 0, sdramRASn |-> 0, sdramCASn |-> 0, sdramWEn |-> 0])

ApplyNoOperation ==
    IF sdramClkEn = 0
    THEN EnableClock
    ELSE [cmdCompleted |-> TRUE,
          sdramCSn |-> 0, sdramRASn |-> 1, sdramCASn |-> 1, sdramWEn |-> 1]

ApplyDeviceDeSelect ==
    IF sdramClkEn = 0
    THEN EnableClock
    ELSE [cmdCompleted |-> TRUE, sdramCSn |-> 1]

\* AutoRefresh without the check that all banks are Idle.
ApplyAutoRefreshUnguarded ==
    IF sdramClkEn = 0
    THEN EnableClock
    ELSE [cmdCompleted |-> TRUE,
          bankState |-> [b \in Banks |-> "Refreshing"],
          sdramClkEn |-> 1,
          sdramCSn |-> 0, sdramRASn |-> 0, sdramCASn |-> 0, sdramWEn |-> 1]

ApplyAutoRefresh ==
    IF ~allBanksIdle
    THEN [errorState |-> TRUE]
    ELSE IF sdramClkEn = 0
    THEN EnableClock
    ELSE [cmdCompleted |-> TRUE,
          bankState |-> [b \in Banks |-> "Refreshing"],
          sdramClkEn |-> 1,
          sdramCSn |-> 0, sdramRASn |-> 0, sdramCASn |-> 0, sdramWEn |-> 1]

ApplyDataMaskOutputDisable ==
    IF (targetBankState # "Active") /\ (targetBankState # "ActiveBurst")
    THEN [errorState |-> TRUE]
    ELSE IF sdramClkEn = 0
    THEN EnableClock
    ELSE [cmdCompleted |-> TRUE, sdramDataMasks |-> 15]

applySDRAMCommand(cmd) ==
    CASE cmd = "BankActivate" -> ApplyBankActivate
      [] cmd = "BankPreCharge" -> ApplyBankPreCharge
      [] cmd = "PreChargeAll" -> ApplyPreChargeAll
      [] cmd = "Write" -> ApplyWrite
      [] cmd = "Read" -> ApplyRead
      [] cmd = "ModeRegisterSet" -> ApplyModeRegisterSet
      [] cmd = "NoOperation" -> ApplyNoOperation
      [] cmd = "DeviceDeSelect" -> ApplyDeviceDeSelect
      [] cmd = "AutoRefresh" -> ApplyAutoRefresh
      [] cmd = "DataMask_OutputDisable" -> ApplyDataMaskOutputDisable

\* The call together with the name of the command, for the observers.
Issue(cmd) == applySDRAMCommand(cmd) @@ [nextCommand |-> cmd]

Completed(u) == Upd(u, "cmdCompleted", FALSE)

\* m.next = 'Error' with the bookkeeping every state does on errorState.
GoError == [previousControllerState |-> currentControllerState,
            currentControllerState |-> "Error"]

setModeConfig == [sdramBank |-> 0, sdramAddress |-> ModeWord]

(* ----------------------------------------------------------------------- *)
(* Sequencer: one handler per FSM state, as the partial update of the tick *)
(* ----------------------------------------------------------------------- *)
\* powerUpCounter is Signal(range(PowerUPcycles)): the load keeps its low bits.
PowerUpLoad == PowerUPcycles % Pow2(BitsFor(PowerUPcycles))

InitOpHandler ==
    IF errorState THEN GoError
    ELSE IF cmdIndex = 0 THEN
        LET a == Issue("DeviceDeSelect") IN
        (IF Completed(a)
         THEN [repeatRefresh |-> FALSE, powerUpCounter |-> PowerUpLoad, cmdIndex |-> 1,
               sdramClkEn |-> 0, sdramRASn |-> 1, sdramCASn |-> 1, sdramWEn |-> 1]
         ELSE NoUpdate) @@ a
    ELSE IF cmdIndex = 1 THEN
        IF powerUpCounter > 0
        THEN [powerUpCounter |-> powerUpCounter - 1]
        ELSE [previousControllerState |-> "InitOp", cmdIndex |-> 0, delayCounter |-> -1,
              currentControllerState |-> "ConfigurationOp"]
    ELSE NoUpdate

AfterPreChargeAllReady == [repeatRefresh |-> TRUE, cmdIndex |-> 1, ctrlReady |-> TRUE]
AfterPreChargeAllOnce == [repeatRefresh |-> FALSE, cmdIndex |-> 1]
\* What the completion of PreChargeAll arms: the refresh step is to run twice.
AfterPreChargeAll == [repeatRefresh |-> TRUE, cmdIndex |-> 1]

ConfigurationOpHandler ==
    IF errorState THEN GoError
    ELSE IF cmdIndex = 0 THEN
        LET a == Issue("PreChargeAll") IN
        (IF Completed(a) THEN AfterPreChargeAll ELSE NoUpdate) @@ a
    ELSE IF cmdIndex = 1 THEN
        LET a == Issue("DeviceDeSelect") IN
        (IF Completed(a) THEN [cmdIndex |-> 2] ELSE NoUpdate) @@ a
    ELSE IF cmdIndex = 2 THEN
        LET a == Issue("ModeRegisterSet") IN
        (IF Completed(a) THEN [burstWritesMode |-> TRUE, cmdIndex |-> 3] ELSE NoUpdate)
        @@ (IF Upd(a, "cmdRemainingCyclesCounter", 0) = 0 THEN setModeConfig ELSE NoUpdate)
        @@ a
    ELSE IF cmdIndex = 3 THEN
        LET a == Issue("AutoRefresh") IN
        (IF Completed(a) THEN [cmdIndex |-> 4] ELSE NoUpdate) @@ a
    ELSE IF cmdIndex = 4 THEN
        LET a == Issue("DeviceDeSelect") IN
        (IF Completed(a) THEN [cmdIndex |-> 5, delayCounter |-> RCcycles - 1] ELSE NoUpdate) @@ a
    ELSE IF cmdIndex = 5 THEN
        IF delayCounter > 0 THEN [delayCounter |-> delayCounter - 1]
        ELSE IF delayCounter = 0 THEN [delayCounter |-> -1, cmdIndex |-> 6]
        ELSE NoUpdate
    ELSE IF cmdIndex = 6 THEN
        (IF repeatRefresh
         THEN [repeatRefresh |-> FALSE, cmdIndex |-> 3]
         ELSE [ctrlReady |-> TRUE, cmdIndex |-> 0,
               previousControllerState |-> "ConfigurationOp",
               currentControllerState |-> "Idle"])
        @@ [bankState |-> [b \in Banks |-> "Idle"]]
    ELSE NoUpdate

IdleRequestWriteFirst(ctrlRdAddress, ctrlWrAddress) ==
    IF ctrlWr /\ burstWritesMode
    THEN (IF ~ctrlReady THEN [currentControllerState |-> "WriteBurstOp"] ELSE NoUpdate)
         @@ [previousControllerState |-> "Idle", ctrlReady |-> FALSE,
             ctrlAddress |-> ctrlWrAddress]
    ELSE IF banksShouldRefresh
    THEN [previousControllerState |-> "Idle", currentControllerState |-> "RefreshOp"]
    ELSE IF ctrlRd
    THEN (IF ~ctrlReady THEN [currentControllerState |-> "ReadOp"] ELSE NoUpdate)
         @@ [previousControllerState |-> "Idle", ctrlReady |-> FALSE,
             ctrlAddress |-> ctrlRdAddress]
    ELSE NoUpdate
\* The If/Elif chain Idle runs once its NoOperation has completed.
\* ctrlRdAddress and ctrlWrAddress are inputs of the tick.
IdleRequest(ctrlRdAddress, ctrlWrAddress) ==
    IF banksShouldRefresh
    THEN [previousControllerState |-> "Idle", currentControllerState |-> "RefreshOp"]
    ELSE IF ctrlRd
    THEN (IF ~ctrlReady THEN [currentControllerState |-> "ReadOp"] ELSE NoUpdate)
         @@ [previousControllerState |-> "Idle", ctrlReady |-> FALSE,
             ctrlAddress |-> ctrlRdAddress]
    ELSE IF ctrlWr /\ burstWritesMode
    THEN (IF ~ctrlReady THEN [currentControllerState |-> "WriteBurstOp"] ELSE NoUpdate)
         @@ [previousControllerState |-> "Idle", ctrlReady |-> FALSE,
             ctrlAddress |-> ctrlWrAddress]
    ELSE NoUpdate

IdleHandler(ctrlRdAddress, ctrlWrAddress) ==
    LET a == Issue("NoOperation") IN
    (IF errorState THEN GoError
     ELSE IF Completed(a) THEN IdleRequest(ctrlRdAddress, ctrlWrAddress)
     ELSE NoUpdate) @@ a

\* Cycle budgets of the preventive-refresh pre-checks.
ReadCycleBudget ==
    ((pageWords - targetColumnAddress) * Pow2(suspendCyclesShiftBits(dataByteWidth))) + 15 + 5

WriteBurstCycleBudget ==
    ((pageWords - targetColumnAddress) * Pow2(suspendCyclesShiftBits(dataByteWidth))) + 13 + 5

ReadOpHandler ==
    IF errorState THEN GoError
    ELSE IF cmdIndex = 0 THEN
        [refreshRequired |-> (targetBankRefreshCounter < ReadCycleBudget), cmdIndex |-> 1]
    ELSE IF cmdIndex = 1 THEN
        IF refreshRequired
        THEN [previousControllerState |-> "ReadOp", currentControllerState |-> "RefreshOp"]
        ELSE IF targetBankCanActivate THEN
            LET a == Issue("BankActivate") IN
            (IF Completed(a) THEN [sdramDataMasks |-> targetMask, cmdIndex |-> 2] ELSE NoUpdate) @@ a
        ELSE NoUpdate
    ELSE IF cmdIndex = 2 THEN
        LET a == Issue("DeviceDeSelect") IN
        (IF Completed(a) THEN [delayCounter |-> RCDcycles - 1, cmdIndex |-> 3] ELSE NoUpdate) @@ a
    ELSE IF cmdIndex = 3 THEN
        IF delayCounter > 0 THEN [delayCounter |-> delayCounter - 1]
        ELSE IF delayCounter = 0 THEN
            LET a == Issue("Read") IN
            (IF Completed(a)
             THEN [pageColumnIndex |-> targetColumnAddress, cmdIndex |-> 4]
             ELSE NoUpdate) @@ a @@ [delayCounter |-> -1]
        ELSE NoUpdate
    ELSE IF cmdIndex = 4 THEN
        LET a == Issue("DeviceDeSelect") IN
        (IF Completed(a) THEN [cmdIndex |-> 5] ELSE NoUpdate) @@ a
    ELSE IF cmdIndex = 5 THEN
        \* CASLatency is CAS_3Clocks
        [cmdIndex |-> 6]
    ELSE IF cmdIndex = 6 THEN
        [ctrlRdInProgress |-> TRUE, cmdIndex |-> 7]
    ELSE IF cmdIndex = 7 THEN
        (IF pageColumnIndex = pageWords - 1 - 1 THEN Issue("DataMask_OutputDisable") ELSE NoUpdate)
        @@ (IF pageColumnIndex < pageWords - 1
            THEN [pageColumnIndex |-> pageColumnIndex + 1]
            ELSE [cmdIndex |-> 8, pageColumnIndex |-> 0])
        @@ [ctrlRdIncAddress |-> TRUE]
    ELSE IF cmdIndex = 8 THEN
        (IF targetBankCanPreCharge
         THEN LET a == Issue("BankPreCharge") IN
              (IF Completed(a) THEN [cmdIndex |-> 9] ELSE NoUpdate) @@ a
         ELSE NoUpdate)
        @@ [ctrlRdInProgress |-> FALSE, ctrlRdIncAddress |-> FALSE]
    ELSE IF cmdIndex = 9 THEN
        LET a == Issue("DeviceDeSelect") IN
        (IF Completed(a) THEN [delayCounter |-> RPcycles - 1, cmdIndex |-> 10] ELSE NoUpdate) @@ a
    ELSE IF cmdIndex = 10 THEN
        (IF delayCounter = 0
         THEN [delayCounter |-> -1, cmdIndex |-> 0, ctrlReady |-> TRUE,
               currentControllerState |-> "Idle"]
         ELSE NoUpdate)
        @@ (IF delayCounter > 0 THEN [delayCounter |-> delayCounter - 1] ELSE NoUpdate)
    ELSE NoUpdate

WriteBurstOpHandler ==
    IF errorState THEN GoError
    ELSE IF cmdIndex = 0 THEN
        [refreshRequired |-> (targetBankRefreshCounter < WriteBurstCycleBudget), cmdIndex |-> 1]
    ELSE IF cmdIndex = 1 THEN
        IF refreshRequired
        THEN [previousControllerState |-> "WriteBurstOp", currentControllerState |-> "RefreshOp"]
        ELSE IF targetBankCanActivate THEN
            LET a == Issue("BankActivate") IN
            (IF Completed(a) THEN [sdramDataMasks |-> targetMask, cmdIndex |-> 2] ELSE NoUpdate) @@ a
        ELSE NoUpdate
    ELSE IF cmdIndex = 2 THEN
        LET a == Issue("NoOperation") IN
        (IF Completed(a) THEN [delayCounter |-> RCDcycles - 1, cmdIndex |-> 3] ELSE NoUpdate) @@ a
    ELSE IF cmdIndex = 3 THEN
        \* nrOfReadWriteSuspendCycles = 0
        (IF delayCounter = 0
         THEN LET a == Issue("Write") IN
              (IF Completed(a) THEN [cmdIndex |-> 4] ELSE NoUpdate)
              @@ [ctrlWrInProgress |-> TRUE, pageColumnIndex |-> targetColumnAddress]
              @@ a
              @@ [sdramDqWRn |-> 1, delayCounter |-> -1]
         ELSE NoUpdate)
        @@ (IF delayCounter > 0
            THEN (IF delayCounter = 2 THEN [ctrlWrIncAddress |-> TRUE] ELSE NoUpdate)
                 @@ [delayCounter |-> delayCounter - 1]
            ELSE NoUpdate)
    ELSE IF cmdIndex = 4 THEN
        LET d == IF pageColumnIndex = 0 THEN Issue("DeviceDeSelect") ELSE NoUpdate IN
        (IF pageColumnIndex = pageWords - 4 THEN [ctrlWrIncAddress |-> FALSE] ELSE NoUpdate)
        @@ (IF pageColumnIndex < pageWords - 1
            THEN [pageColumnIndex |-> pageColumnIndex + 1]
            ELSE LET a == Issue("DataMask_OutputDisable") IN
                 (IF Completed(a @@ d)
                  THEN [ctrlWrInProgress |-> FALSE, cmdIndex |-> 5, delayCounter |-> WRcycles - 1]
                  ELSE NoUpdate)
                 @@ a
                 @@ [sdramDqWRn |-> 0])
        @@ d
    ELSE IF cmdIndex = 5 THEN
        LET a == Issue("DeviceDeSelect") IN
        (IF Completed(a) THEN [cmdIndex |-> 6] ELSE NoUpdate)
        @@ (IF delayCounter > 0 THEN [delayCounter |-> delayCounter - 1] ELSE NoUpdate)
        @@ a
    ELSE IF cmdIndex = 6 THEN
        LET a == IF (delayCounter = 0) /\ targetBankCanPreCharge
                 THEN [delayCounter |-> RPcycles - 1] @@ Issue("BankPreCharge")
                 ELSE NoUpdate IN
        (IF Completed(a) THEN [cmdIndex |-> 7] ELSE NoUpdate)
        @@ a
        @@ (IF delayCounter > 0 THEN [delayCounter |-> delayCounter - 1] ELSE NoUpdate)
    ELSE IF cmdIndex = 7 THEN
        (IF delayCounter = 0
         THEN [delayCounter |-> -1, cmdIndex |-> 0, ctrlReady |-> TRUE,
               currentControllerState |-> "Idle"]
         ELSE NoUpdate)
        @@ (IF delayCounter > 0 THEN [delayCounter |-> delayCounter - 1] ELSE NoUpdate)
        @@ Issue("DeviceDeSelect")
    ELSE NoUpdate

\* The state RefreshOp hands control back to: an If, then an If/Else, in this order.
RefreshOpReturn ==
    (IF previousControllerState = "ReadOp"
     THEN [currentControllerState |-> "ReadOp"]
     ELSE [currentControllerState |-> "Idle"])
    @@ (IF previousControllerState = "WriteBurstOp"
        THEN [currentControllerState |-> "WriteBurstOp"]
        ELSE NoUpdate)

RefreshOpHandler ==
    IF errorState THEN GoError
    ELSE IF refreshCmdIndex = 0 THEN
        LET a == Issue("AutoRefresh") IN
        (IF Completed(a) THEN [refreshCmdIndex |-> 1, delayCounter |-> RCcycles - 1] ELSE NoUpdate) @@ a
    ELSE
        LET a == Issue("DeviceDeSelect") IN
        (IF delayCounter > 0 THEN [delayCounter |-> delayCounter - 1]
         ELSE IF (delayCounter = 0) /\ Completed(a)
         THEN RefreshOpReturn
              @@ [delayCounter |-> -1, refreshCmdIndex |-> 0, refreshRequired |-> FALSE,
                  bankState |-> [b \in Banks |-> "Idle"],
                  previousControllerState |-> "RefreshOp"]
         ELSE NoUpdate)
        @@ a

ErrorHandlerLeaves == IF ctrlRd THEN [currentControllerState |-> "Idle"] ELSE NoUpdate
\* State Error: m.next = 'Error' and nothing else.
ErrorHandler == NoUpdate

(* ----------------------------------------------------------------------- *)
(* Bank controllers: SimpleBankController.elaborate, for bank b            *)
(* ----------------------------------------------------------------------- *)
\* A counter that runs only while its bank is Idle.
CountingIdleOnly(b) == bankState[b] = "Idle"

Counting(b) == bankState[b] \in {"Idle", "Active", "ActiveBurst"}

RowOpen(b) == bankState[b] \in {"Active", "ActiveBurst"}

NextREFIcyclesCounter(b) ==
    IF Counting(b)
    THEN (IF bankREFIcyclesCounter[b] > 0 THEN bankREFIcyclesCounter[b] - 1
          ELSE bankREFIcyclesCounter[b])
    ELSE REFIcycles - 1

\* The flag raised one count later than the code does.
NextShouldRefreshLate(b) ==
    IF Counting(b)
    THEN (IF bankREFIcyclesCounter[b] <= 2 THEN TRUE ELSE bankShouldRefresh[b])
    ELSE FALSE

NextShouldRefresh(b) ==
    IF Counting(b)
    THEN (IF bankREFIcyclesCounter[b] <= 3 THEN TRUE ELSE bankShouldRefresh[b])
    ELSE FALSE

NextRAScyclesCounter(b) ==
    IF RowOpen(b)
    THEN (IF bankRAScyclesCounter[b] < RAScycles - 1 THEN bankRAScyclesCounter[b] + 1
          ELSE bankRAScyclesCounter[b])
    ELSE 0

NextCanPreCharge(b) ==
    IF RowOpen(b) THEN ~(bankRAScyclesCounter[b] < RAScycles - 1) ELSE TRUE

NextActivatedCounter(b, strobe) ==
    IF strobe THEN RCcycles - 1
    ELSE IF bankActivatedCounter[b] > 0 THEN bankActivatedCounter[b] - 1
    ELSE bankActivatedCounter[b]

NextOtherActivatedCounter(b, strobe) ==
    IF strobe THEN RRDcycles - 1
    ELSE IF otherBankActivatedCounter[b] > 0 THEN otherBankActivatedCounter[b] - 1
    ELSE otherBankActivatedCounter[b]

\* The one-cycle strobes the encoder raises in the tick whose update is u.
bankActivated(u, b) == ("bankActivated" \in DOMAIN u) /\ (u["bankActivated"] = b)

\* The strobe raised for every bank, the activated one included.
otherBankActivatedAny(u, b) == "bankActivated" \in DOMAIN u

otherBankActivated(u, b) == ("bankActivated" \in DOMAIN u) /\ (u["bankActivated"] # b)

BankControllers(u) ==
    /\ bankState' = Upd(u, "bankState", bankState)
    /\ bankREFIcyclesCounter' = [b \in Banks |-> NextREFIcyclesCounter(b)]
    /\ bankShouldRefresh' = [b \in Banks |-> NextShouldRefresh(b)]
    /\ bankRAScyclesCounter' = [b \in Banks |-> NextRAScyclesCounter(b)]
    /\ bankCanPreCharge' = [b \in Banks |-> NextCanPreCharge(b)]
    /\ bankActivatedCounter' = [b \in Banks |-> NextActivatedCounter(b, bankActivated(u, b))]
    /\ otherBankActivatedCounter' =
           [b \in Banks |-> NextOtherActivatedCounter(b, otherBankActivated(u, b))]

(* ----------------------------------------------------------------------- *)
(* One clock tick                                                          *)
(* ----------------------------------------------------------------------- *)
\* The request strobes are inputs.  Only the Idle handler reads them, so the
\* client's drive is drawn for the ticks taken in Idle (and in Error, which must
\* ignore it) and is low elsewhere, unless the client drives them at all times.
StrobeSampled ==
    (clientDrive = "Always") \/ (currentControllerState' \in {"Idle", "Error"})

Stimulus ==
    /\ ctrlRd' \in (IF StrobeSampled THEN BOOLEAN ELSE {FALSE})
    /\ ctrlWr' \in (IF StrobeSampled THEN BOOLEAN ELSE {FALSE})

\* Commands that complete in InitOp and ConfigurationOp, in order.
Observe(u) ==
    cfgTrace' = IF (currentControllerState \in {"InitOp", "ConfigurationOp"}) /\ Completed(u)
                THEN Append(cfgTrace, u["nextCommand"])
                ELSE cfgTrace

\* An age is followed up to the longest interval that is measured from its
\* command: RCD after an activation, RP after a precharge, RC after a refresh.
MaxActivateAge == RCDcycles

AgedCommands == {"BankPreCharge", "AutoRefresh"}

MaxAge(c) == IF c = "BankPreCharge" THEN RPcycles ELSE RCcycles

Older(age, max) == IF age < max THEN age + 1 ELSE max

NextActivateAge(u) ==
    [b \in Banks |->
        IF bankActivated(u, b) THEN 0 ELSE Older(activateAge[b], MaxActivateAge)]

NextCmdAge(u) ==
    [c \in AgedCommands |->
        IF Completed(u) /\ Upd(u, "nextCommand", "NoCommand") = c
        THEN 0
        ELSE Older(cmdAge[c], MaxAge(c))]

\* The data bus carries an unmasked input word in the cycles in which the
\* register sdramDqWRn drives the input latch onto it and sdramDataMasks leaves
\* at least one byte lane enabled.  The age saturates at WR.
MaxDataAge == WRcycles

NextDataAge(u) ==
    IF Upd(u, "sdramDqWRn", sdramDqWRn) = 1 /\ Upd(u, "sdramDataMasks", sdramDataMasks) # 15
    THEN 0
    ELSE Older(dataAge, MaxDataAge)

\* The age of the pending PreChargeAll or ModeRegisterSet after the tick whose
\* update is u: it starts at 0 in the tick that first drives the command's lines,
\* grows by one per tick, and is cleared by the tick that reports completion.
NextHoldAge(u) ==
    IF Upd(u, "nextCommand", "NoCommand") \notin {"PreChargeAll", "ModeRegisterSet"}
    THEN holdAge
    ELSE IF Completed(u) THEN -1
    ELSE IF "sdramRASn" \in DOMAIN u THEN holdAge + 1
    ELSE holdAge

\* Registers take the value the handler assigned, or keep their value.
Commit(handler) ==
    \E u \in {handler} :
    /\ phase = "Running"
    /\ currentControllerState' = Upd(u, "currentControllerState", currentControllerState)
    /\ previousControllerState' = Upd(u, "previousControllerState", previousControllerState)
    /\ errorState' = Upd(u, "errorState", errorState)
    /\ cmdIndex' = Upd(u, "cmdIndex", cmdIndex)
    /\ refreshCmdIndex' = Upd(u, "refreshCmdIndex", refreshCmdIndex)
    /\ refreshRequired' = Upd(u, "refreshRequired", refreshRequired)
    /\ powerUpCounter' = Upd(u, "powerUpCounter", powerUpCounter)
    /\ delayCounter' = Upd(u, "delayCounter", delayCounter)
    /\ burstWritesMode' = Upd(u, "burstWritesMode", burstWritesMode)
    /\ pageColumnIndex' = Upd(u, "pageColumnIndex", pageColumnIndex)
    /\ ctrlAddress' = Upd(u, "ctrlAddress", ctrlAddress)
    /\ ctrlReady' = Upd(u, "ctrlReady", ctrlReady)
    /\ repeatRefresh' = Upd(u, "repeatRefresh", repeatRefresh)
    /\ ctrlRdInProgress' = Upd(u, "ctrlRdInProgress", ctrlRdInProgress)
    /\ ctrlWrInProgress' = Upd(u, "ctrlWrInProgress", ctrlWrInProgress)
    /\ ctrlRdIncAddress' = Upd(u, "ctrlRdIncAddress", ctrlRdIncAddress)
    /\ ctrlWrIncAddress' = Upd(u, "ctrlWrIncAddress", ctrlWrIncAddress)
    /\ targetBankCanActivate' = bankCanActivate(targetBankAddress)
    /\ targetBankCanPreCharge' = bankCanPreCharge[targetBankAddress]
    /\ targetBankRefreshCounter' = bankREFIcyclesCounter[targetBankAddress]
    /\ sdramClkEn' = Upd(u, "sdramClkEn", sdramClkEn)
    /\ sdramCSn' = Upd(u, "sdramCSn", sdramCSn)
    /\ sdramRASn' = Upd(u, "sdramRASn", sdramRASn)
    /\ sdramCASn' = Upd(u, "sdramCASn", sdramCASn)
    /\ sdramWEn' = Upd(u, "sdramWEn", sdramWEn)
    /\ sdramDataMasks' = Upd(u, "sdramDataMasks", sdramDataMasks)
    /\ sdramBank' = Upd(u, "sdramBank", sdramBank)
    /\ sdramAddress' = Upd(u, "sdramAddress", sdramAddress)
    /\ sdramDqWRn' = Upd(u, "sdramDqWRn", sdramDqWRn)
    /\ currentCommand' = Upd(u, "nextCommand", currentCommand)
    /\ cmdCompleted' = Completed(u)
    /\ holdAge' = NextHoldAge(u)
    /\ activateAge' = NextActivateAge(u)
    /\ cmdAge' = NextCmdAge(u)
    /\ dataAge' = NextDataAge(u)
    /\ powerUpTicks' = IF currentControllerState = "InitOp" /\ cmdIndex = 1
                       THEN powerUpTicks + 1
                       ELSE powerUpTicks
    /\ activatedStrobe' = [b \in Banks |-> bankActivated(u, b)]
    /\ otherActivatedStrobe' = [b \in Banks |-> otherBankActivated(u, b)]
    /\ rdIncTicks' = IF Upd(u, "ctrlRdIncAddress", ctrlRdIncAddress) THEN rdIncTicks + 1
                     ELSE IF Upd(u, "currentControllerState", currentControllerState) = "Idle"
                     THEN 0
                     ELSE rdIncTicks
    /\ BankControllers(u)
    /\ Observe(u)
    /\ Stimulus
    /\ UNCHANGED cfgVars

\* elaborate(): with suspend cycles the WriteBurstOp branch reads the attribute
\* self.pageColunIndex, which does not exist, and elaboration raises AttributeError.
Elaborate ==
    /\ phase = "Constructed"
    /\ phase' = IF nrOfReadWriteSuspendCycles(dataByteWidth) > 0
                THEN "ElaborateError" ELSE "Running"
    /\ UNCHANGED <<dataByteWidth, REFIcycles, PowerUPcycles, clientDrive, ctrlRd, ctrlWr,
                   seqVars, busVars, bankVars, cfgTrace, currentCommand, cmdCompleted,
                   rdIncTicks, holdAge, activatedStrobe, otherActivatedStrobe,
                   powerUpTicks, activateAge, cmdAge, dataAge>>

TickInitOp == (currentControllerState = "InitOp") /\ Commit(InitOpHandler)

TickConfigurationOp ==
    (currentControllerState = "ConfigurationOp") /\ Commit(ConfigurationOpHandler)

\* An address input is read only while its strobe is high.  With both strobes
\* high the write address is either the read address or one that differs from
\* it in bank and column.
OtherAddress(a) ==
    MakeAddress(a \div (pageWords * sdramBanks),
                CHOOSE b \in StimulusBanks : b # ((a \div pageWords) % sdramBanks),
                ((a % pageWords) + 1) % pageWords)

\* A client that drives its strobes at all times keeps to one bank.
DrivenAddresses ==
    IF clientDrive = "Always"
    THEN { MakeAddress(r, 0, c) : r \in Rows, c \in Columns }
    ELSE Addresses

RdAddressInputs == IF ctrlRd THEN DrivenAddresses ELSE {0}

WrAddressInputs(ctrlRdAddress) ==
    IF ~ctrlWr THEN {0}
    ELSE IF ctrlRd THEN {ctrlRdAddress, OtherAddress(ctrlRdAddress)} \cap DrivenAddresses
    ELSE DrivenAddresses

TickIdle ==
    /\ currentControllerState = "Idle"
    /\ \E ctrlRdAddress \in RdAddressInputs :
         \E ctrlWrAddress \in WrAddressInputs(ctrlRdAddress) :
           Commit(IdleHandler(ctrlRdAddress, ctrlWrAddress))

\* ReadOp that samples ctrlRd again and takes the address of a new request.
TickReadOpResamples ==
    /\ currentControllerState = "ReadOp"
    /\ Commit((IF ctrlRd THEN [ctrlAddress |-> 0] ELSE NoUpdate) @@ ReadOpHandler)

\* ReadOp that cuts the wait of step 3 short.
TickReadOpEarly ==
    /\ currentControllerState = "ReadOp"
    /\ Commit(IF cmdIndex = 3 /\ delayCounter > 1
              THEN [delayCounter |-> 0] @@ ReadOpHandler
              ELSE ReadOpHandler)

\* ReadOp whose step 4 moves on without applying DeviceDeSelect.
TickReadOpHolds ==
    /\ currentControllerState = "ReadOp"
    /\ Commit(IF ~errorState /\ cmdIndex = 4 THEN [cmdIndex |-> 5] ELSE ReadOpHandler)

TickReadOp == (currentControllerState = "ReadOp") /\ Commit(ReadOpHandler)

\* WriteBurstOp that returns to Idle without waiting after the precharge.
TickWriteBurstOpEarly ==
    /\ currentControllerState = "WriteBurstOp"
    /\ Commit(IF cmdIndex = 7 /\ delayCounter > 0
              THEN [delayCounter |-> -1, cmdIndex |-> 0, ctrlReady |-> TRUE,
                    currentControllerState |-> "Idle"] @@ WriteBurstOpHandler
              ELSE WriteBurstOpHandler)

\* WriteBurstOp that closes the row in the tick of the last column, in place of
\* DataMask_OutputDisable and the write-recovery wait.
TickWriteBurstOpNoRecovery ==
    /\ currentControllerState = "WriteBurstOp"
    /\ Commit(IF cmdIndex = 4 /\ pageColumnIndex = pageWords - 1
              THEN [cmdIndex |-> 7, delayCounter |-> RPcycles - 1]
                   @@ Issue("BankPreCharge") @@ WriteBurstOpHandler
              ELSE WriteBurstOpHandler)

TickWriteBurstOp == (currentControllerState = "WriteBurstOp") /\ Commit(WriteBurstOpHandler)

\* RefreshOp that hands control back one tick before the countdown reaches 0.
TickRefreshOpShort ==
    /\ currentControllerState = "RefreshOp"
    /\ Commit(IF ~errorState /\ refreshCmdIndex = 1 /\ delayCounter = 1
              THEN RefreshOpReturn
                   @@ [delayCounter |-> -1, refreshCmdIndex |-> 0, refreshRequired |-> FALSE,
                       bankState |-> [b \in Banks |-> "Idle"],
                       previousControllerState |-> "RefreshOp"]
                   @@ RefreshOpHandler
              ELSE RefreshOpHandler)

TickRefreshOp == (currentControllerState = "RefreshOp") /\ Commit(RefreshOpHandler)

TickError == (currentControllerState = "Error") /\ Commit(ErrorHandler)

(* ----------------------------------------------------------------------- *)
(* Reset state and specifications                                          *)
(* ----------------------------------------------------------------------- *)
ResetState ==
    /\ phase = "Constructed"
    /\ ctrlRd = FALSE
    /\ ctrlWr = FALSE
    /\ currentControllerState = "InitOp"
    /\ previousControllerState = "InitOp"
    /\ errorState = FALSE
    /\ cmdIndex = 0
    /\ refreshCmdIndex = 0
    /\ refreshRequired = FALSE
    /\ powerUpCounter = 0
    /\ delayCounter = 0
    /\ burstWritesMode = FALSE
    /\ pageColumnIndex = 0
    /\ ctrlAddress = 0
    /\ ctrlReady = FALSE
    /\ repeatRefresh = FALSE
    /\ ctrlRdInProgress = FALSE
    /\ ctrlWrInProgress = FALSE
    /\ ctrlRdIncAddress = FALSE
    /\ ctrlWrIncAddress = FALSE
    /\ targetBankCanActivate = FALSE
    /\ targetBankCanPreCharge = FALSE
    /\ targetBankRefreshCounter = 0
    /\ sdramClkEn = 0
    /\ sdramCSn = 0
    /\ sdramRASn = 0
    /\ sdramCASn = 0
    /\ sdramWEn = 0
    /\ sdramDataMasks = 15
    /\ sdramBank = 0
    /\ sdramAddress = 0
    /\ sdramDqWRn = 0
    /\ bankState = [b \in Banks |-> "NotReady"]
    /\ bankREFIcyclesCounter = [b \in Banks |-> 0]
    /\ bankRAScyclesCounter = [b \in Banks |-> 0]
    /\ bankActivatedCounter = [b \in Banks |-> 0]
    /\ otherBankActivatedCounter = [b \in Banks |-> 0]
    /\ bankShouldRefresh = [b \in Banks |-> FALSE]
    /\ bankCanPreCharge = [b \in Banks |-> FALSE]
    /\ cfgTrace = <<>>
    /\ currentCommand = "NoCommand"
    /\ cmdCompleted = FALSE
    /\ rdIncTicks = 0
    /\ holdAge = -1
    /\ activatedStrobe = [b \in Banks |-> FALSE]
    /\ otherActivatedStrobe = [b \in Banks |-> FALSE]
    /\ powerUpTicks = 0
    /\ activateAge = [b \in Banks |-> MaxActivateAge]
    /\ cmdAge = [c \in AgedCommands |-> MaxAge(c)]
    /\ dataAge = MaxDataAge

Init ==
    /\ dataByteWidth \in DataByteWidths
    /\ REFIcycles = ModelREFIcycles
    /\ PowerUPcycles = ModelPowerUPcycles
    /\ clientDrive = "InIdle"
    /\ ResetState

Next ==
    \/ Elaborate
    \/ TickInitOp
    \/ TickConfigurationOp
    \/ TickIdle
    \/ TickReadOp
    \/ TickWriteBurstOp
    \/ TickRefreshOp

Spec == Init /\ [][Next]_vars

\* Power-up and configuration alone, for every refresh interval and power-up
\* hold up to the bounds; the run ends on the first tick of Idle.
InitCfg ==
    /\ dataByteWidth \in DataByteWidths
    /\ REFIcycles \in 1 .. MaxCfgREFIcycles
    /\ PowerUPcycles \in 1 .. MaxCfgPowerUPcycles
    /\ clientDrive = "InIdle"
    /\ ResetState

NextCfg ==
    \/ Elaborate
    \/ TickInitOp
    \/ TickConfigurationOp

SpecCfg == InitCfg /\ [][NextCfg]_vars

\* The default controller under a client that raises its strobes at any tick,
\* also while a burst or a refresh is running.
InitBusy ==
    /\ dataByteWidth = 3
    /\ REFIcycles = ModelREFIcycles
    /\ PowerUPcycles = ModelPowerUPcycles
    /\ clientDrive = "Always"
    /\ ResetState

SpecBusy == InitBusy /\ [][Next]_vars

\* The sequencer with its error flag raised, in any state and at any step:
\* every handler then hands over to Error, and Error runs.
ControllerStates ==
    {"InitOp", "ConfigurationOp", "Idle", "ReadOp", "WriteBurstOp", "RefreshOp", "Error"}

InitError ==
    /\ dataByteWidth \in {3, 4}
    /\ REFIcycles = ModelREFIcycles
    /\ PowerUPcycles = ModelPowerUPcycles
    /\ clientDrive = "InIdle"
    /\ phase = "Running"
    /\ ctrlRd = FALSE
    /\ ctrlWr = FALSE
    /\ currentControllerState \in ControllerStates
    /\ previousControllerState = "InitOp"
    /\ errorState = TRUE
    /\ cmdIndex \in 0 .. 1
    /\ refreshCmdIndex = 0
    /\ refreshRequired = FALSE
    /\ powerUpCounter = 0
    /\ delayCounter = -1
    /\ burstWritesMode = TRUE
    /\ pageColumnIndex = 0
    /\ ctrlAddress = 0
    /\ ctrlReady \in BOOLEAN
    /\ repeatRefresh = FALSE
    /\ ctrlRdInProgress = FALSE
    /\ ctrlWrInProgress = FALSE
    /\ ctrlRdIncAddress = FALSE
    /\ ctrlWrIncAddress = FALSE
    /\ targetBankCanActivate = TRUE
    /\ targetBankCanPreCharge = TRUE
    /\ targetBankRefreshCounter = REFIcycles - 1
    /\ sdramClkEn = 1
    /\ sdramCSn = 1
    /\ sdramRASn = 1
    /\ sdramCASn = 1
    /\ sdramWEn = 1
    /\ sdramDataMasks = 15
    /\ sdramBank = 0
    /\ sdramAddress = 0
    /\ sdramDqWRn = 0
    /\ bankState = [b \in Banks |-> "Idle"]
    /\ bankREFIcyclesCounter = [b \in Banks |-> REFIcycles - 1]
    /\ bankRAScyclesCounter = [b \in Banks |-> 0]
    /\ bankActivatedCounter = [b \in Banks |-> 0]
    /\ otherBankActivatedCounter = [b \in Banks |-> 0]
    /\ bankShouldRefresh = [b \in Banks |-> FALSE]
    /\ bankCanPreCharge = [b \in Banks |-> TRUE]
    /\ cfgTrace = <<>>
    /\ currentCommand = "NoCommand"
    /\ cmdCompleted = FALSE
    /\ rdIncTicks = 0
    /\ holdAge = -1
    /\ activatedStrobe = [b \in Banks |-> FALSE]
    /\ otherActivatedStrobe = [b \in Banks |-> FALSE]
    /\ powerUpTicks = 0
    /\ activateAge = [b \in Banks |-> MaxActivateAge]
    /\ cmdAge = [c \in AgedCommands |-> MaxAge(c)]
    /\ dataAge = MaxDataAge

NextError ==
    \/ TickInitOp
    \/ TickConfigurationOp
    \/ TickIdle
    \/ TickReadOp
    \/ TickWriteBurstOp
    \/ TickRefreshOp
    \/ TickError

SpecError == InitError /\ [][NextError]_vars

\* The steps at which a command with a bank-state check is applied:
\* <<state, previous state, cmdIndex, delayCounter>>.
GuardedSteps ==
    { <<"ConfigurationOp", "InitOp", 2, -1>>, <<"ConfigurationOp", "InitOp", 3, -1>>,
      <<"RefreshOp", "Idle", 0, -1>>, <<"RefreshOp", "ReadOp", 1, -1>>,
      <<"RefreshOp", "WriteBurstOp", 1, -1>>,
      <<"ReadOp", "Idle", 1, -1>>, <<"WriteBurstOp", "Idle", 1, -1>>,
      <<"ReadOp", "Idle", 3, 0>>, <<"WriteBurstOp", "Idle", 3, 0>> }

\* Any mix of Idle and open banks among the banks the client addresses.
FaultBankStates ==
    { f \in [Banks -> {"Idle", "ActiveBurst"}] :
        \A b \in Banks \ StimulusBanks : f[b] = "Idle" }

\* The configured sequencer about to apply a checked command, the banks in any
\* state: the encoder's checks are exercised on both outcomes.
InitFault ==
    /\ dataByteWidth = 3
    /\ REFIcycles = ModelREFIcycles
    /\ PowerUPcycles = ModelPowerUPcycles
    /\ clientDrive = "InIdle"
    /\ phase = "Running"
    /\ ctrlRd = FALSE
    /\ ctrlWr = FALSE
    /\ \E p \in GuardedSteps :
          /\ currentControllerState = p[1]
          /\ previousControllerState = p[2]
          /\ cmdIndex = p[3]
          /\ delayCounter = p[4]
    /\ errorState = FALSE
    /\ refreshCmdIndex = 0
    /\ refreshRequired = FALSE
    /\ powerUpCounter = 0
    /\ burstWritesMode = TRUE
    /\ pageColumnIndex = 0
    /\ ctrlAddress = 0
    /\ ctrlReady = FALSE
    /\ repeatRefresh = FALSE
    /\ ctrlRdInProgress = FALSE
    /\ ctrlWrInProgress = FALSE
    /\ ctrlRdIncAddress = FALSE
    /\ ctrlWrIncAddress = FALSE
    /\ targetBankCanActivate \in BOOLEAN
    /\ targetBankCanPreCharge = TRUE
    /\ targetBankRefreshCounter = REFIcycles - 1
    /\ sdramClkEn = 1
    /\ sdramCSn = 1
    /\ sdramRASn = 1
    /\ sdramCASn = 1
    /\ sdramWEn = 1
    /\ sdramDataMasks = 15
    /\ sdramBank = 0
    /\ sdramAddress = 0
    /\ sdramDqWRn = 0
    /\ bankState \in FaultBankStates
    /\ bankREFIcyclesCounter = [b \in Banks |-> REFIcycles - 1]
    /\ bankRAScyclesCounter = [b \in Banks |-> 0]
    /\ bankActivatedCounter = [b \in Banks |-> 0]
    /\ otherBankActivatedCounter = [b \in Banks |-> 0]
    /\ bankShouldRefresh = [b \in Banks |-> FALSE]
    /\ bankCanPreCharge = [b \in Banks |-> TRUE]
    /\ cfgTrace = <<>>
    /\ currentCommand = "NoCommand"
    /\ cmdCompleted = FALSE
    /\ rdIncTicks = 0
    /\ holdAge = -1
    /\ activatedStrobe = [b \in Banks |-> FALSE]
    /\ otherActivatedStrobe = [b \in Banks |-> FALSE]
    /\ powerUpTicks = 0
    /\ activateAge = [b \in Banks |-> MaxActivateAge]
    /\ cmdAge = [c \in AgedCommands |-> MaxAge(c)]
    /\ dataAge = MaxDataAge


\* The checked command and what follows it, up to the return to Idle.
NextFault ==
    \/ TickConfigurationOp
    \/ TickReadOp
    \/ TickWriteBurstOp
    \/ TickRefreshOp
    \/ TickError

SpecFault == InitFault /\ [][NextFault]_vars

(* ----------------------------------------------------------------------- *)
(* Properties                                                              *)
(* ----------------------------------------------------------------------- *)
Configured == currentControllerState \notin {"InitOp", "ConfigurationOp"}

\* The NoOperation of this Idle tick completes and the request chain runs.
IdleDecides ==
    /\ phase = "Running"
    /\ currentControllerState = "Idle"
    /\ ~errorState
    /\ sdramClkEn = 1

\* A burst is under way: in its own state, or in the refresh it diverted to.
BurstUnderWay ==
    \/ currentControllerState \in {"ReadOp", "WriteBurstOp"}
    \/ /\ currentControllerState = "RefreshOp"
       /\ previousControllerState \in {"ReadOp", "WriteBurstOp"}

\* C1: after configuration, no bank's refresh-interval counter is 0 while the
\* bank is in Idle, Active or ActiveBurst.
C1_RefreshCounterNeverExpires ==
    Configured => \A b \in Banks : Counting(b) => bankREFIcyclesCounter[b] # 0

\* C2: a burst (ReadOp or WriteBurstOp, with or without a preventive refresh
\* first) comes back to Idle only with ctrlReady asserted.
C2_BurstReturnsReady ==
    [][(BurstUnderWay /\ currentControllerState' = "Idle") => ctrlReady']_vars

\* C3: a request strobe that is high for one tick while Idle is ready for it
\* (ctrlReady high, NoOp complete, no bank needing refresh) clears ctrlReady and
\* takes the sequencer to ReadOp, or to WriteBurstOp for a write.
C3_OneTickRequestStartsBurst ==
    [][(IdleDecides /\ ctrlReady /\ ~banksShouldRefresh
            /\ (ctrlRd \/ (ctrlWr /\ burstWritesMode)) /\ ~ctrlRd' /\ ~ctrlWr')
        => (/\ ~ctrlReady'
            /\ currentControllerState' = IF ctrlRd THEN "ReadOp" ELSE "WriteBurstOp")]_vars

\* C4: when RefreshOp completes, the next state is the state RefreshOp was
\* entered from (Idle, ReadOp or WriteBurstOp) and cmdIndex is kept.
C4_RefreshReturnsToCaller ==
    [][(currentControllerState = "RefreshOp" /\ currentControllerState' # "RefreshOp"
            /\ ~errorState)
        => (/\ currentControllerState' = previousControllerState
            /\ cmdIndex' = cmdIndex)]_vars

\* C5: the refresh a WriteBurstOp diverts to is followed by that WriteBurstOp
\* at its Activate step, with the refresh request cleared (one excursion only).
C5_WriteResumesAfterRefresh ==
    [][(currentControllerState = "RefreshOp" /\ previousControllerState = "WriteBurstOp"
            /\ currentControllerState' # "RefreshOp" /\ ~errorState)
        => (/\ currentControllerState' = "WriteBurstOp"
            /\ cmdIndex' = 1
            /\ ~refreshRequired')]_vars

\* C6: once in Error the sequencer is in Error on the next tick, whatever the
\* request strobes are.
C6_ErrorIsTerminal ==
    [][(currentControllerState = "Error") => (currentControllerState' = "Error")]_vars

\* C6 witness: Error, entered from Idle, has run for several ticks (the bank
\* counters have moved on) and has both request strobes raised against it.
C6_Witness ==
    /\ currentControllerState = "Error"
    /\ previousControllerState = "Idle"
    /\ ctrlRd
    /\ ctrlWr
    /\ bankREFIcyclesCounter[0] < REFIcycles - 4

\* C7: the write/read-back round trip is delivered for data widths 1, 2, 3 and
\* 4 bytes; it needs the controller of each width to elaborate into hardware.
C7_EveryWidthElaborates ==
    (dataByteWidth \in DataByteWidths) => (phase # "ElaborateError")

\* C8: on every return from ReadOp or WriteBurstOp to Idle, pageColumnIndex is 0.
C8_CursorZeroOnReturn ==
    [][(currentControllerState \in {"ReadOp", "WriteBurstOp"}
            /\ currentControllerState' = "Idle")
        => (pageColumnIndex' = 0)]_vars

\* C9: when Idle's NoOp completes, a bank needing refresh sends the sequencer
\* to RefreshOp even with ctrlRd or ctrlWr asserted, leaving ctrlReady and
\* ctrlAddress unchanged; otherwise a read request wins over a write request of
\* the same tick: the write never starts, and the read starts as soon as
\* ctrlReady is low.
C9_IdlePriority ==
    [][IdleDecides =>
        /\ banksShouldRefresh =>
              /\ currentControllerState' = "RefreshOp"
              /\ ctrlReady' = ctrlReady
              /\ ctrlAddress' = ctrlAddress
        /\ (~banksShouldRefresh /\ ctrlRd) =>
              /\ currentControllerState' # "WriteBurstOp"
              /\ ~ctrlReady'
              /\ (~ctrlReady => currentControllerState' = "ReadOp")
        /\ (~banksShouldRefresh /\ ~ctrlRd /\ ctrlWr /\ burstWritesMode) =>
              /\ currentControllerState' # "ReadOp"
              /\ (~ctrlReady => currentControllerState' = "WriteBurstOp")]_vars

\* C9 witness: Idle is about to decide with a bank needing refresh and both
\* request strobes asserted.
C9_Witness ==
    /\ IdleDecides
    /\ banksShouldRefresh
    /\ ctrlRd
    /\ ctrlWr
    /\ ctrlReady

CountOf(trace, cmd) == Cardinality({i \in DOMAIN trace : trace[i] = cmd})

Follows(trace, i, cmd) == \E j \in DOMAIN trace : j < i /\ trace[j] = cmd

\* C10: from reset to the first tick with ctrlReady asserted, exactly two
\* AutoRefresh commands complete, each after the PreChargeAll and after the
\* ModeRegisterSet, for every refresh interval.
C10_TwoAutoRefreshInConfiguration ==
    /\ CountOf(cfgTrace, "AutoRefresh") <= 2
    /\ \A i \in DOMAIN cfgTrace :
          cfgTrace[i] = "AutoRefresh" =>
              Follows(cfgTrace, i, "PreChargeAll") /\ Follows(cfgTrace, i, "ModeRegisterSet")
    /\ ctrlReady => CountOf(cfgTrace, "AutoRefresh") = 2

\* C10 witness: configuration has finished with the shortest refresh interval.
C10_Witness ==
    /\ ctrlReady
    /\ currentControllerState = "Idle"
    /\ REFIcycles = 1
    /\ CountOf(cfgTrace, "AutoRefresh") = 2

\* C11: ctrlReady is low in every tick of InitOp and ConfigurationOp; it is
\* first asserted on the transition from ConfigurationOp to Idle, and in that
\* tick all four banks are Idle and burstWritesMode is set.
C11_ReadyFirstAssertedAfterConfiguration ==
    /\ []((currentControllerState \in {"InitOp", "ConfigurationOp"}) => ~ctrlReady)
    /\ [][(currentControllerState = "ConfigurationOp" /\ currentControllerState' = "Idle")
            => (ctrlReady' /\ burstWritesMode'
                /\ \A b \in Banks : bankState'[b] = "Idle")]_vars

\* C11 witness: the first tick of Idle after configuration, ctrlReady asserted.
C11_Witness ==
    /\ currentControllerState = "Idle"
    /\ previousControllerState = "ConfigurationOp"
    /\ ctrlReady
    /\ allBanksIdle
    /\ burstWritesMode
    /\ Len(cfgTrace) = 8


\* C12: from the tick the sequencer enters ReadOp or WriteBurstOp until it is
\* back in Idle, ctrlAddress keeps its value and no second burst is started
\* (the only entry into a burst state is the return of the diverted refresh to
\* the burst it interrupted),
\* whatever the client drives on ctrlRd and ctrlWr meanwhile.
C12_BurstIgnoresRequests ==
    [][BurstUnderWay =>
        /\ ctrlAddress' = ctrlAddress
        /\ (currentControllerState' \in {"ReadOp", "WriteBurstOp"}
              => currentControllerState' = (IF currentControllerState = "RefreshOp"
                                            THEN previousControllerState
                                            ELSE currentControllerState))]_vars

\* C12 witness: a strobe is high in the middle of a burst on another address.
C12_Witness ==
    /\ currentControllerState \in {"ReadOp", "WriteBurstOp"}
    /\ cmdIndex > 1
    /\ ctrlRd \/ ctrlWr
    /\ pageColumnIndex > 0


\* C13: an AutoRefresh completes only in a tick in which all four banks are
\* Idle, in ConfigurationOp and in RefreshOp whether the refresh was entered
\* from Idle, ReadOp or WriteBurstOp; the same holds for ModeRegisterSet.
C13_RefreshAndModeSetNeedIdleBanks ==
    [][(cmdCompleted' /\ currentCommand' \in {"AutoRefresh", "ModeRegisterSet"})
          => \A b \in Banks : bankState[b] = "Idle"]_vars

\* C13 witness: the AutoRefresh of a refresh that interrupted a burst has just
\* completed and put the banks in Refreshing.
C13_Witness ==
    /\ cmdCompleted
    /\ currentCommand = "AutoRefresh"
    /\ currentControllerState = "RefreshOp"
    /\ previousControllerState \in {"ReadOp", "WriteBurstOp"}
    /\ \A b \in Banks : bankState[b] = "Refreshing"


\* C14: the tick in which a Write completes loads sdramDataMasks with 0x8 when
\* the word is 3 bytes wide (never 0x0), and with 0x0 when it is 1, 2 or 4
\* bytes wide.
C14_WriteLoadsTargetMask ==
    (cmdCompleted /\ currentCommand = "Write")
        => /\ (dataByteWidth = 3 => sdramDataMasks = 8)
           /\ (dataByteWidth \in {1, 2, 4} => sdramDataMasks = 0)

\* C14 witness: a Write has just completed on a 3-byte controller.
C14_Witness ==
    /\ dataByteWidth = 3
    /\ cmdCompleted
    /\ currentCommand = "Write"
    /\ currentControllerState = "WriteBurstOp"
    /\ sdramDataMasks = 8


C16_CanActivateHeldOff ==
    /\ [](\A b \in Banks :
            bankCanActivate(b) =>
                (bankActivatedCounter[b] = 0 /\ otherBankActivatedCounter[b] = 0))
    /\ [][\A b \in Banks :
            (bankActivatedCounter[b] > 0 \/ otherBankActivatedCounter[b] > 0)
                => (~bankCanActivate(b) /\ ~bankCanActivate(b)')]_vars


\* C17: for every bank the can-precharge flag is false in every tick from the
\* first tick the bank is in Active or ActiveBurst until RAScycles ticks have
\* elapsed since its activation (the age counter, which counts those ticks from
\* 0, is still below RAScycles - 1); outside Active and ActiveBurst the flag is
\* true and the age counter is 0.  Stated for the ticks after configuration,
\* which leaves out the reset value of the flag.
C17_CanPreChargeHeldOff ==
    Configured =>
        \A b \in Banks :
            /\ (RowOpen(b) /\ bankRAScyclesCounter[b] < RAScycles - 1) => ~bankCanPreCharge[b]
            /\ ~RowOpen(b) => (bankCanPreCharge[b] /\ bankRAScyclesCounter[b] = 0)


\* C18: in a Read burst that starts at column c, with 3- or 4-byte words,
\* ctrlRdIncAddress is high for exactly pageWords - c ticks, and it is low
\* again in the tick in which ctrlReady is reasserted.
C18_ReadIncAddressTicks ==
    [][(currentControllerState = "ReadOp" /\ currentControllerState' = "Idle")
          => /\ dataByteWidth \in {3, 4}
             /\ rdIncTicks' = 0
             /\ rdIncTicks = pageWords - (ctrlAddress % Pow2(sdramColumnAddressWidth))
             /\ ~ctrlRdIncAddress /\ ~ctrlRdIncAddress'
             /\ ctrlReady']_vars

\* C18 witness: a Read burst from the second column has counted its ticks and
\* is about to return to Idle.
C18_Witness ==
    /\ currentControllerState = "ReadOp"
    /\ cmdIndex = 10
    /\ delayCounter = 0
    /\ ctrlAddress % Pow2(sdramColumnAddressWidth) = 1
    /\ rdIncTicks = pageWords - 1
    /\ ~ctrlRdIncAddress


\* C19: command issue is two-phase.  A command applied in a tick with sdramClkEn
\* low only raises sdramClkEn: it is not reported complete and the RAS, CAS, WE
\* and CS lines keep their values in that tick, so they are driven no earlier
\* than the following tick; and cmdCompleted is high only in ticks in which
\* sdramClkEn is high.
C19_TwoPhaseIssue ==
    [][/\ cmdCompleted' => sdramClkEn = 1
       /\ sdramClkEn = 0 =>
            /\ ~cmdCompleted'
            /\ UNCHANGED <<sdramCSn, sdramRASn, sdramCASn, sdramWEn>>
            /\ (currentCommand' # currentCommand => sdramClkEn' = 1)]_vars

\* C19 witness: PreChargeAll was applied with sdramClkEn low; the clock enable
\* is now high, the command is not complete and its lines are not driven yet.
C19_Witness ==
    /\ currentControllerState = "ConfigurationOp"
    /\ currentCommand = "PreChargeAll"
    /\ sdramClkEn = 1
    /\ ~cmdCompleted
    /\ delayCounter = -1
    /\ sdramRASn = 1
    /\ sdramWEn = 1


\* C20: PreChargeAll reports completion no earlier than RPcycles ticks after
\* the tick in which its lines were first driven, and ModeRegisterSet no earlier
\* than MRDcycles ticks after; each reports completion exactly once per issue
\* (the configuration issues each once) and leaves the hold counter at -1.
C20_HoldBeforeCompletion ==
    /\ [][/\ (cmdCompleted' /\ currentCommand' = "PreChargeAll")
                => (holdAge + 1 >= RPcycles /\ delayCounter' = -1)
          /\ (cmdCompleted' /\ currentCommand' = "ModeRegisterSet")
                => (holdAge + 1 >= MRDcycles /\ delayCounter' = -1)]_vars
    /\ [](/\ CountOf(cfgTrace, "PreChargeAll") <= 1
          /\ CountOf(cfgTrace, "ModeRegisterSet") <= 1
          /\ ctrlReady => (/\ CountOf(cfgTrace, "PreChargeAll") = 1
                           /\ CountOf(cfgTrace, "ModeRegisterSet") = 1))

\* C20 witness: ModeRegisterSet has just reported completion, after
\* PreChargeAll did, and the hold counter is back at -1.
C20_Witness ==
    /\ cmdCompleted
    /\ currentCommand = "ModeRegisterSet"
    /\ delayCounter = -1
    /\ holdAge = -1
    /\ CountOf(cfgTrace, "PreChargeAll") = 1
    /\ CountOf(cfgTrace, "ModeRegisterSet") = 1


C22_BankStateFrame ==
    [][cmdCompleted' =>
        /\ currentCommand' = "BankActivate" =>
              bankState' = [bankState EXCEPT ![(ctrlAddress \div pageWords) % sdramBanks] =
                               IF burstWritesMode THEN "ActiveBurst" ELSE "Active"]
        /\ currentCommand' = "BankPreCharge" =>
              bankState' = [bankState EXCEPT ![(ctrlAddress \div pageWords) % sdramBanks] = "Idle"]
        /\ currentCommand' = "PreChargeAll" => \A b \in Banks : bankState'[b] = "Idle"
        /\ currentCommand' = "AutoRefresh" => \A b \in Banks : bankState'[b] = "Refreshing"]_vars

\* C22 witness: BankActivate has just completed on bank 1 and only bank 1 is open.
C22_Witness ==
    /\ cmdCompleted
    /\ currentCommand = "BankActivate"
    /\ (ctrlAddress \div pageWords) % sdramBanks = 1
    /\ bankState[1] = "ActiveBurst"
    /\ \A b \in Banks \ {1} : bankState[b] = "Idle"


\* C23: for each Activate the sequencer issues, the bankActivated strobe of the
\* targeted bank is high for exactly one tick, the tick in which the Activate
\* completes, and the otherBankActivated strobe of each other bank is high in
\* that same single tick; no bank has both strobes high in one tick, and both
\* strobes are low in every tick in which no Activate completes.
C23_ActivationStrobes ==
    /\ [](LET completes == cmdCompleted /\ currentCommand = "BankActivate"
              target == (ctrlAddress \div pageWords) % sdramBanks
          IN  \A b \in Banks :
                /\ ~(activatedStrobe[b] /\ otherActivatedStrobe[b])
                /\ activatedStrobe[b] <=> (completes /\ b = target)
                /\ otherActivatedStrobe[b] <=> (completes /\ b # target))
    /\ [][(cmdCompleted /\ currentCommand = "BankActivate")
            => ~(cmdCompleted' /\ currentCommand' = "BankActivate")]_vars

\* C23 witness: the Activate of bank 0 has just completed; bank 0 has its
\* bankActivated strobe and the three other banks their otherBankActivated.
C23_Witness ==
    /\ cmdCompleted
    /\ currentCommand = "BankActivate"
    /\ activatedStrobe = [b \in Banks |-> b = 0]
    /\ otherActivatedStrobe = [b \in Banks |-> b # 0]
    /\ bankActivatedCounter[0] = RCcycles - 1


\* C24: for each bank, whichever bank is targeted: in a tick in which its state
\* is Idle, Active or ActiveBurst the refresh counter goes down by one and stops
\* at 0, a counter of at most 3 asserts the needs-refresh flag, and an asserted
\* flag stays asserted; in a tick in which the bank is in any other state the
\* counter is reloaded with REFIcycles - 1 and the flag is cleared.
C24_RefreshCounterPerBank ==
    [][phase = "Running" =>
        \A b \in Banks :
            IF bankState[b] \in {"Idle", "Active", "ActiveBurst"}
            THEN /\ bankREFIcyclesCounter'[b] =
                        (IF bankREFIcyclesCounter[b] > 0
                         THEN bankREFIcyclesCounter[b] - 1 ELSE 0)
                 /\ bankREFIcyclesCounter[b] <= 3 => bankShouldRefresh'[b]
                 /\ bankShouldRefresh[b] => bankShouldRefresh'[b]
            ELSE /\ bankREFIcyclesCounter'[b] = REFIcycles - 1
                 /\ ~bankShouldRefresh'[b]]_vars

\* C24 witness: bank 3, which no request targets, has counted down to 2 while
\* bank 0 is open, and its needs-refresh flag is asserted.
C24_Witness ==
    /\ bankState[3] = "Idle"
    /\ bankState[0] = "ActiveBurst"
    /\ bankREFIcyclesCounter[3] = 2
    /\ bankShouldRefresh[3]


\* C25: after the initial DeviceDeSelect completes the sequencer stays in
\* InitOp, with sdramClkEn low and no command applied, for at least
\* PowerUPcycles ticks before it enters ConfigurationOp, for every value of
\* PowerUPcycles, powers of two included.
C25_PowerUpHold ==
    [][currentControllerState = "InitOp" =>
        /\ cmdIndex = 1 => (sdramClkEn = 0 /\ ~cmdCompleted'
                            /\ currentCommand' = currentCommand)
        /\ currentControllerState' = "ConfigurationOp" => powerUpTicks' >= PowerUPcycles]_vars


\* C26: in every ReadOp and WriteBurstOp the Read or Write command appears on
\* the bus at least RCDcycles ticks after the Activate command of the same bank
\* appeared on the bus.  A command is on the bus in the tick after the one in
\* which it completes, so the distance on the bus is the distance between the
\* two completions.
C26_ActivateToAccess ==
    (cmdCompleted /\ currentCommand \in {"Read", "Write"})
        => activateAge[(ctrlAddress \div pageWords) % sdramBanks] >= RCDcycles

\* C26 witness: a Write has just completed on bank 1, RCDcycles ticks or more
\* after the bank's activation.
C26_Witness ==
    /\ cmdCompleted
    /\ currentCommand = "Write"
    /\ (ctrlAddress \div pageWords) % sdramBanks = 1
    /\ bankState[1] = "ActiveBurst"
    /\ activateAge[1] = RCDcycles
    /\ activateAge[0] = MaxActivateAge


\* C27: after every BankPreCharge, in ReadOp as well as in WriteBurstOp, at
\* least RPcycles ticks pass before ctrlReady is reasserted, and so before the
\* next BankActivate or AutoRefresh appears on the bus.
C27_PreChargeToReady ==
    /\ ctrlReady => cmdAge["BankPreCharge"] >= RPcycles
    /\ (cmdCompleted /\ currentCommand \in {"BankActivate", "AutoRefresh"})
          => cmdAge["BankPreCharge"] >= RPcycles

\* C27 witness: the first tick of Idle after a write burst: ctrlReady was just
\* reasserted, RPcycles ticks after the BankPreCharge.
C27_Witness ==
    /\ currentControllerState = "Idle"
    /\ ctrlReady
    /\ cmdIndex = 0
    /\ currentCommand = "DeviceDeSelect"
    /\ sdramWEn = 0
    /\ cmdAge["BankPreCharge"] = RPcycles
    /\ cmdAge["AutoRefresh"] = MaxAge("AutoRefresh")


\* C28: BankPreCharge is never completed for a bank earlier than RAScycles
\* ticks after that bank's BankActivate, whatever the start column, and
\* targetBankCanPreCharge is never true while bankCanPreCharge of the
\* addressed bank is false.
C28_PreChargeAfterRAS ==
    /\ (cmdCompleted /\ currentCommand = "BankPreCharge")
          => activateAge[sdramBank] >= RAScycles
    /\ targetBankCanPreCharge => bankCanPreCharge[targetBankAddress]


\* C29: in WriteBurstOp the BankPreCharge command completes no earlier than
\* WRcycles ticks after the last cycle in which the data bus carried an
\* unmasked input word.
C29_WriteRecovery ==
    (currentControllerState = "WriteBurstOp" /\ cmdCompleted
        /\ currentCommand = "BankPreCharge")
        => dataAge >= WRcycles

\* BankPreCharge has just completed in step 6 of a write burst, two ticks after
\* DataMask_OutputDisable ended the data phase.
C29_Witness ==
    /\ currentControllerState = "WriteBurstOp"
    /\ cmdIndex = 7
    /\ cmdCompleted
    /\ currentCommand = "BankPreCharge"
    /\ cmdAge["BankPreCharge"] = 0
    /\ delayCounter = RPcycles - 1
    /\ sdramDqWRn = 0
    /\ sdramDataMasks = 15
    /\ dataAge = WRcycles


\* C30: in each of the RCcycles ticks that follow the completion of an
\* AutoRefresh, in ConfigurationOp and in RefreshOp alike, every bank is still
\* marked Refreshing and, after the cycle of the AutoRefresh itself, the bus
\* carries Deselect (chip select high), so that no further command is issued.
C30_RefreshRecovery ==
    cmdAge["AutoRefresh"] < RCcycles
        => /\ \A b \in Banks : bankState[b] = "Refreshing"
           /\ currentControllerState \in {"ConfigurationOp", "RefreshOp"}
           /\ (cmdAge["AutoRefresh"] > 0 => sdramCSn = 1)

\* The first tick back in Idle after a refresh: the banks were marked Idle
\* exactly RCcycles ticks after the AutoRefresh, with Deselect still on the bus.
C30_Witness ==
    /\ currentControllerState = "Idle"
    /\ previousControllerState = "RefreshOp"
    /\ currentCommand = "DeviceDeSelect"
    /\ cmdAge["AutoRefresh"] = RCcycles
    /\ delayCounter = -1
    /\ sdramCSn = 1
    /\ \A b \in Banks : bankState[b] = "Idle"


\* C31: when the BankPreCharge of a read burst completes, DataMask_OutputDisable
\* has been applied in that burst and sdramDataMasks is all ones, whatever the
\* start column.
C31_ReadEndsMasked ==
    (currentControllerState = "ReadOp" /\ cmdCompleted
        /\ currentCommand = "BankPreCharge")
        => sdramDataMasks = 15


\* The banks with an open row.
OpenBanks == {b \in Banks : RowOpen(b)}

\* C32: at most one bank is in Active or ActiveBurst, and in the tick after a
\* BankActivate completes the only open bank is the one just activated.
C32_OneOpenBank ==
    /\ Cardinality(OpenBanks) <= 1
    /\ (cmdCompleted /\ currentCommand = "BankActivate") => OpenBanks = {sdramBank}

\* Bank 1 has just been activated: its row is the only open one, and the
\* other banks, bank 0 included, are Idle.
C32_Witness ==
    /\ cmdCompleted
    /\ currentCommand = "BankActivate"
    /\ sdramBank = 1
    /\ OpenBanks = {1}
    /\ cmdAge["BankPreCharge"] = RPcycles
    /\ bankState[0] = "Idle"


\* C33: the error flag is never set and the Error state is never entered,
\* whatever the client drives on ctrlRd, ctrlWr and the request addresses.
C33_NoError ==
    /\ ~errorState
    /\ currentControllerState # "Error"

\* AutoRefresh, which requires every bank Idle, has just completed in a
\* RefreshOp entered from step 1 of a read burst, without raising the flag.
C33_Witness ==
    /\ currentControllerState = "RefreshOp"
    /\ previousControllerState = "ReadOp"
    /\ cmdCompleted
    /\ currentCommand = "AutoRefresh"
    /\ \A b \in Banks : bankState[b] = "Refreshing"
    /\ ~errorState


\* C34: ctrlReady is high only while the sequencer is in Idle; it is low in
\* every tick spent in RefreshOp, ReadOp, WriteBurstOp or Error.
C34_ReadyOnlyInIdle ==
    ctrlReady => currentControllerState = "Idle"


\* C35: whenever the sequencer is in Idle, cmdIndex is 0, refreshCmdIndex is 0,
\* refreshRequired is low and delayCounter is -1.
C35_IdleStepsReset ==
    currentControllerState = "Idle"
        => /\ cmdIndex = 0
           /\ refreshCmdIndex = 0
           /\ ~refreshRequired
           /\ delayCounter = -1


\* The bus lines carry the encoding of Write: CS low, RAS high, CAS low, WE low.
WriteOnBus == sdramCSn = 0 /\ sdramRASn = 1 /\ sdramCASn = 0 /\ sdramWEn = 0

\* C36: in WriteBurstOp the encoding of Write is on the bus for one tick only:
\* the tick after it carries another encoding, for every start column.
C36_WriteOneTick ==
    [][(currentControllerState = "WriteBurstOp" /\ WriteOnBus) => ~WriteOnBus']_vars


\* C37: ctrlWrIncAddress is low whenever the sequencer is in Idle, whatever the
\* start column of the write bursts before.
C37_WrIncLowInIdle ==
    currentControllerState = "Idle" => ~ctrlWrIncAddress


\* C38: whenever the sequencer is in Idle, every bank is in the Idle state.
C38_IdleBanksIdle ==
    currentControllerState = "Idle" => allBanksIdle

\* The first tick back in Idle after a burst on bank 1 that was accepted from
\* Idle: its precharge has closed the bank and ctrlReady is high again.
C38_Witness ==
    /\ currentControllerState = "Idle"
    /\ previousControllerState = "Idle"
    /\ ctrlReady
    /\ currentCommand = "DeviceDeSelect"
    /\ sdramWEn = 0
    /\ sdramBank = 1
    /\ allBanksIdle


\* C39: once the sequencer has left ConfigurationOp for Idle, the refresh
\* interval counters of all banks are equal in every state.
C39_RefreshCountersEqual ==
    currentControllerState \notin {"InitOp", "ConfigurationOp"}
        => \A a, b \in Banks : bankREFIcyclesCounter[a] = bankREFIcyclesCounter[b]

\* A write burst has bank 1 open while the other banks are Idle, and all four
\* counters have counted down together to the same value.
C39_Witness ==
    /\ currentControllerState = "WriteBurstOp"
    /\ bankState[1] = "ActiveBurst"
    /\ bankState[0] = "Idle"
    /\ bankREFIcyclesCounter[0] < REFIcycles - 1
    /\ bankREFIcyclesCounter[0] > 0
    /\ \A b \in Banks : bankREFIcyclesCounter[b] = bankREFIcyclesCounter[0]


\* Address line A10, which tells BankPreCharge (low) from PreChargeAll (high).
A10(a) == (a \div 1024) % 2

\* The command the lines cs, ras, cas, we and the address a present to the
\* device, for the four commands that act on a row or on all rows.
RowCommandOnBus(cs, ras, cas, we, a) ==
    IF cs # 0 THEN "None"
    ELSE IF <<ras, cas, we>> = <<0, 1, 1>> THEN "BankActivate"
    ELSE IF <<ras, cas, we>> = <<1, 0, 1>> THEN "Read"
    ELSE IF <<ras, cas, we>> = <<0, 1, 0>> /\ A10(a) = 0 THEN "BankPreCharge"
    ELSE IF <<ras, cas, we>> = <<0, 0, 1>> THEN "AutoRefresh"
    ELSE "None"

\* C40: the encoding of BankActivate, Read, BankPreCharge or AutoRefresh is on
\* the bus for one tick only: in the next tick the bus carries something else.
C40_RowCommandOneTick ==
    [][RowCommandOnBus(sdramCSn, sdramRASn, sdramCASn, sdramWEn, sdramAddress) # "None"
          => RowCommandOnBus(sdramCSn', sdramRASn', sdramCASn', sdramWEn', sdramAddress')
                 # RowCommandOnBus(sdramCSn, sdramRASn, sdramCASn, sdramWEn, sdramAddress)]_vars

\* Read has been on the bus for one tick and step 4 of ReadOp has just applied
\* DeviceDeSelect: chip select is high, the other lines keep the Read pattern.
C40_Witness ==
    /\ currentControllerState = "ReadOp"
    /\ cmdIndex = 5
    /\ cmdCompleted
    /\ currentCommand = "DeviceDeSelect"
    /\ sdramCSn = 1
    /\ sdramRASn = 1 /\ sdramCASn = 0 /\ sdramWEn = 1

====
